---- MODULE Spec2Model ----
(***************************************************************************)
(* The PostgreSQL driver of kine (pkg/drivers/pgsql/pgsql.go): the kine    *)
(* revision log table, the statements the driver configures on the generic *)
(* dialect (CompactSQL, the list statements, TranslateErr) and the callers *)
(* that use them.  The source file carries two generations of the list     *)
(* statements: the stored function list_from_kine (lines 47-89, 144-149)   *)
(* and the inline listSQL join (lines 375-417).  Both are modelled; every  *)
(* query operator takes the generation d \in Dialects as its first          *)
(* argument.  The bootstrap of a process (createDBIfNotExist, setup) and   *)
(* the placeholder rendering q are modelled after the log.                 *)
(***************************************************************************)
EXTENDS Integers, Sequences, FiniteSets, TLC

\* ------------------------------------------------------------------ bounds
MaxId == 5          \* the SERIAL sequence is not advanced past this id
NumWriters == 2     \* concurrent callers of insert
NumKeys == 2        \* distinct user keys
NumProcs == 2       \* processes that start against the same server
MaxRuns == 2        \* times a process is started
MaxLen == 4         \* characters of a statement template

\* ------------------------------------------------------- program constants
MinInt32 == (-2147483647) - 1   \* -2147483648, the least INTEGER
MaxInt32 == 2147483647

NULL == -1                      \* SQL NULL in an INTEGER position (ids are >= 1)
NullKey == <<0>>                \* SQL NULL in a VARCHAR position

\* Key names are strings, modelled as sequences of letter codes
\* (a = 1, b = 2, c = 3, o = 15) so that LIKE and > are computed.
KeyA == <<1>>
KeyB == <<2>>
compact_rev_key == <<3, 15>>    \* 'compact_rev_key', abbreviated "co"
Keys == {<<i>> : i \in 1..NumKeys}
Writers == 1..NumWriters

\* A LIKE pattern is a literal prefix followed by '%'; it is held as the prefix.
Patterns == {<<>>} \cup Keys
Dialects == {"list_from_kine", "listSQL"}

VARIABLES
    kine,       \* the rows of table kine
    seq,        \* last value handed out by the sequence behind kine.id
    wr,         \* per writer: position and the arguments of its insert
    lastIns,    \* per key: id, value and deleted flag of the last successful
                \* insert (NoInsert before the first); history, read by no action
    gen,        \* which generation of the file the started binary is
    dbs,        \* the databases of the server
    objs,       \* per database: its tables, indexes and functions
    pr,         \* per process: its position in New and what it has seen
    tmpl,       \* a statement template handed to q
    sql         \* the texts q returned for it

logVars == <<kine, seq, wr, lastIns>>
bootVars == <<gen, dbs, objs, pr>>
qVars == <<tmpl, sql>>
vars == <<kine, seq, wr, lastIns, gen, dbs, objs, pr, tmpl, sql>>

\* --------------------------------------------------------- SQL primitives

\* name LIKE prefix || '%'
Like(name, prefix) ==
    /\ Len(prefix) <= Len(name)
    /\ \A i \in 1..Len(prefix) : name[i] = prefix[i]

\* a < b in the collation order of VARCHAR (lexicographic)
RECURSIVE KeyLess(_, _)
KeyLess(a, b) ==
    IF b = <<>> THEN FALSE
    ELSE IF a = <<>> THEN TRUE
    ELSE IF Head(a) # Head(b) THEN Head(a) < Head(b)
    ELSE KeyLess(Tail(a), Tail(b))

\* MAX(...) over a set of integers; NULL over no rows
Max(S) == IF S = {} THEN NULL ELSE CHOOSE m \in S : \A x \in S : x <= m

\* SELECT MAX(rkv.id) FROM kine AS rkv
revSQL(t) == Max({r.id : r \in t})

\* SELECT MAX(crkv.prev_revision) FROM kine AS crkv WHERE crkv.name = 'compact_rev_key'
compactRevSQL(t) == Max({r.prev_revision : r \in {x \in t : x.name = compact_rev_key}})

\* rows of a set in ascending id order
RECURSIVE SortById(_)
SortById(S) ==
    IF S = {} THEN <<>>
    ELSE LET m == CHOOSE r \in S : \A x \in S : r.id <= x.id
         IN <<m>> \o SortById(S \ {m})

\* rows of a set (at most one per name) in ascending name order
RECURSIVE SortByName(_)
SortByName(S) ==
    IF S = {} THEN <<>>
    ELSE LET m == CHOOSE r \in S : \A x \in S : x = r \/ KeyLess(r.name, x.name)
         IN <<m>> \o SortByName(S \ {m})

\* LIMIT n (NULL: no limit)
Limit(s, n) == IF n = NULL \/ n >= Len(s) THEN s ELSE SubSeq(s, 1, n)

\* the two watermark columns prepended to every returned row
WithMarks(t, s) ==
    [i \in 1..Len(s) |->
        [current_id |-> revSQL(t), compact_rev_id |-> compactRevSQL(t), row |-> s[i]]]

\* --------------------------------------------------------- list statements

\* (mutant) kv.name >= p_min_key: the start key is not exclusive
list_from_kine_Inclusive(t, p_name_pattern, p_min_id, p_min_key, p_max_id, p_include_deleted, p_result_limit) ==
    LET kept == {kv \in t : /\ Like(kv.name, p_name_pattern)
                            /\ (p_min_key = NullKey \/ ~KeyLess(kv.name, p_min_key))
                            /\ kv.id <= p_max_id
                            /\ (kv.deleted = 0 \/ p_include_deleted)}
        distinct == {kv \in kept : \A x \in kept : x.name = kv.name => x.id <= kv.id}
    IN WithMarks(t, Limit(SortByName(distinct), p_result_limit))

\* FUNCTION list_from_kine: DISTINCT ON (name) over the rows the WHERE clause
\* keeps, ORDER BY name, id DESC, LIMIT.  p_min_id is not used by the body.
list_from_kine(t, p_name_pattern, p_min_id, p_min_key, p_max_id, p_include_deleted, p_result_limit) ==
    LET kept == {kv \in t : /\ Like(kv.name, p_name_pattern)
                            /\ (p_min_key = NullKey \/ KeyLess(p_min_key, kv.name))
                            /\ kv.id <= p_max_id
                            /\ (kv.deleted = 0 \/ p_include_deleted)}
        distinct == {kv \in kept : \A x \in kept : x.name = kv.name => x.id <= kv.id}
    IN WithMarks(t, Limit(SortByName(distinct), p_result_limit))

\* (mutant) MIN(mkv.id) instead of MAX(mkv.id): the oldest revision per key
listSQL_MinId(t, pattern, maxId, minId, include_deleted, limit) ==
    LET mkv == {x \in t : /\ Like(x.name, pattern)
                          /\ x.id <= maxId
                          /\ minId # NULL /\ x.id > minId}
        minkv == {CHOOSE i \in {x.id : x \in {y \in mkv : y.name = n}} :
                      \A x \in mkv : x.name = n => i <= x.id : n \in {x.name : x \in mkv}}
        lkv == {kv \in t : kv.id \in minkv /\ (kv.deleted = 0 \/ include_deleted)}
    IN WithMarks(t, Limit(SortById(lkv), limit))

\* listSQL: the rows whose id is the MAX(id) of their name among the rows with
\* name LIKE ?, id <= maxId, id > minId; then deleted = 0 OR ?; ORDER BY id ASC.
\* A NULL minId makes id > minId unknown for every row.
listSQL(t, pattern, maxId, minId, include_deleted, limit) ==
    LET mkv == {x \in t : /\ Like(x.name, pattern)
                          /\ x.id <= maxId
                          /\ minId # NULL /\ x.id > minId}
        maxkv == {Max({x.id : x \in {y \in mkv : y.name = n}}) : n \in {x.name : x \in mkv}}
        lkv == {kv \in t : kv.id \in maxkv /\ (kv.deleted = 0 \/ include_deleted)}
    IN WithMarks(t, Limit(SortById(lkv), limit))

\* idOfKey: SELECT MAX(ikv.id) FROM kine AS ikv WHERE ikv.name = ? AND ikv.id <= ?
idOfKey(t, key, rev) == Max({ikv.id : ikv \in {x \in t : x.name = key /\ x.id <= rev}})

\* dialect.GetCurrentSQL / GetCurrentSQLLimited (limit = NULL: the unlimited text)
GetCurrentSQL(d, t, pattern, include_deleted, limit) ==
    IF d = "list_from_kine"
    THEN list_from_kine(t, pattern, MinInt32, NullKey, MaxInt32, include_deleted, limit)
    ELSE listSQL(t, pattern, MaxInt32, MinInt32, include_deleted, limit)

\* dialect.ListRevisionStartSQL / ListRevisionStartSQLLimited
ListRevisionStartSQL(d, t, pattern, revision, include_deleted, limit) ==
    IF d = "list_from_kine"
    THEN list_from_kine(t, pattern, MinInt32, NullKey, revision, include_deleted, limit)
    ELSE listSQL(t, pattern, revision, MinInt32, include_deleted, limit)

\* dialect.GetRevisionAfterSQL / GetRevisionAfterSQLLimited, with the arguments in
\* placeholder order: pattern, revision, start key, revision, include_deleted
GetRevisionAfterSQL(d, t, pattern, rev1, startKey, rev2, include_deleted, limit) ==
    IF d = "list_from_kine"
    THEN list_from_kine(t, pattern, rev1, startKey, rev2, include_deleted, limit)
    ELSE listSQL(t, pattern, rev1, idOfKey(t, startKey, rev2), include_deleted, limit)

\* current(name_pattern, include_deleted, limit?)
current(d, t, pattern, include_deleted, limit) ==
    GetCurrentSQL(d, t, pattern, include_deleted, limit)

\* as_of(name_pattern, min_key_exclusive?, max_revision, include_deleted, limit?)
as_of(d, t, pattern, min_key, max_revision, include_deleted, limit) ==
    IF min_key = NullKey
    THEN ListRevisionStartSQL(d, t, pattern, max_revision, include_deleted, limit)
    ELSE GetRevisionAfterSQL(d, t, pattern, max_revision, min_key, max_revision,
                             include_deleted, limit)

\* the rows of a response, without the watermark columns
Rows(resp) == {resp[i].row : i \in 1..Len(resp)}

\* (mutant) the subquery counts every matching revision, not one per name
CountSQL_AllRevisions(d, t, pattern, include_deleted) ==
    [current_id |-> revSQL(t),
     count |-> Cardinality({kv \in t : /\ Like(kv.name, pattern)
                                       /\ (kv.deleted = 0 \/ include_deleted)})]

\* dialect.CountSQL: SELECT (MAX(rkv.id)), COUNT(c.theid) FROM (...) c, where c is
\* DISTINCT ON (name) over name LIKE ? AND (deleted = 0 OR ?) in the first
\* generation and the unlimited listSQL of GetCurrentSQL in the second
CountSQL(d, t, pattern, include_deleted) ==
    IF d = "list_from_kine"
    THEN LET kept == {kv \in t : /\ Like(kv.name, pattern)
                                 /\ (kv.deleted = 0 \/ include_deleted)}
             c == {kv \in kept : \A x \in kept : x.name = kv.name => x.id <= kv.id}
         IN [current_id |-> revSQL(t), count |-> Cardinality({kv.id : kv \in c})]
    ELSE [current_id |-> revSQL(t),
          count |-> Len(listSQL(t, pattern, MaxInt32, MinInt32, include_deleted, NULL))]

\* count(name_pattern, include_deleted)
count(d, t, pattern, include_deleted) == CountSQL(d, t, pattern, include_deleted)

\* ---------------------------------------------------------------- bootstrap

Procs == 1..NumProcs

\* A Go error: nil, a *pq.Error with its code, or any other error
NoErr == [pq |-> FALSE, code |-> ""]
PqErr(code) == [pq |-> TRUE, code |-> code]

\* A string the bootstrap handles is the sequence of its pieces; "/" is a
\* piece of its own.  The path of the parsed DSN (prepareDSN puts "/kubernetes"
\* where the DSN names no database):
DsnPaths == {<<"/", "kubernetes">>, <<"/", "kine">>}

\* u.Path = "/postgres"
AdminPath == <<"/", "postgres">>

\* strings.SplitN(s, "/", 2)[1]: what follows the first "/"
RECURSIVE SplitN2(_)
SplitN2(s) == IF Head(s) = "/" THEN Tail(s) ELSE SplitN2(Tail(s))

DbNames == {SplitN2(p) : p \in DsnPaths}

\* var createDB, in each generation of the file
createDB(g) ==
    IF g = "list_from_kine" THEN <<"CREATE DATABASE ", "%s;">> ELSE <<"CREATE DATABASE ">>

\* stmt := createDB + dbName + ";"
CreateStmt(g, dbName) == createDB(g) \o dbName \o <<";">>

\* db.Ping() on a DSN: the server's answer to a connection attempt; fault is
\* what goes wrong before the database is looked up (NoErr: nothing)
PingFaults == {NoErr, PqErr("28P01"), [pq |-> FALSE, code |-> "connection refused"]}
Ping(d, path, fault) ==
    IF fault # NoErr THEN fault
    ELSE IF SplitN2(path) \in d THEN NoErr
    ELSE PqErr("3D000")

\* what createDBIfNotExist does with the error of db.Ping(): return it (nil
\* included) when it is no *pq.Error, return nil on 42P04, return it on any
\* code but 3D000, go on to create the database on 3D000
AfterPing(err) ==
    IF ~err.pq THEN [do |-> "return", err |-> err]
    ELSE IF err.code = "42P04" THEN [do |-> "return", err |-> NoErr]
    ELSE IF err.code # "3D000" THEN [do |-> "return", err |-> err]
    ELSE [do |-> "create", err |-> NoErr]

\* the server executing the text of db.Exec(stmt): CREATE DATABASE <name>;
\* creates the database or fails with duplicate_database, any other text is a
\* syntax error
IsCreateDatabase(stmt) ==
    /\ Len(stmt) = 3 /\ stmt[1] = "CREATE DATABASE " /\ stmt[3] = ";"
    /\ <<stmt[2]>> \in DbNames
ExecCreate(d, stmt) ==
    IF ~IsCreateDatabase(stmt) THEN [err |-> PqErr("42601"), dbs |-> d]
    ELSE IF <<stmt[2]>> \in d THEN [err |-> PqErr("42P04"), dbs |-> d]
    ELSE [err |-> NoErr, dbs |-> d \cup {<<stmt[2]>>}]

\* var schema, in each generation of the file
Ddl(verb, guard, name, on) == [verb |-> verb, guard |-> guard, name |-> name, on |-> on]
schema(g) ==
    << Ddl("CREATE TABLE", "IF NOT EXISTS", "kine", ""),
       Ddl("CREATE INDEX", "IF NOT EXISTS", "kine_name_index", "kine"),
       Ddl("CREATE INDEX", "IF NOT EXISTS", "kine_name_id_index", "kine"),
       Ddl("CREATE INDEX", "IF NOT EXISTS", "kine_id_deleted_index", "kine"),
       Ddl("CREATE INDEX", "IF NOT EXISTS", "kine_prev_revision_index", "kine"),
       Ddl("CREATE UNIQUE INDEX", "IF NOT EXISTS", "kine_name_prev_revision_uindex", "kine") >>
    \o IF g = "list_from_kine"
       THEN << Ddl("CREATE INDEX", "IF NOT EXISTS", "kine_list_query_index", "kine"),
               Ddl("CREATE FUNCTION", "OR REPLACE", "list_from_kine", "") >>
       ELSE << >>

Obj(kind, name, on) == [kind |-> kind, name |-> name, on |-> on]

\* (mutant) the statements lose IF NOT EXISTS / OR REPLACE
ExecDDL_Unguarded(o, s) ==
    IF \E x \in o : x.name = s.name THEN [err |-> PqErr("42P07"), objs |-> o]
    ELSE [err |-> NoErr, objs |-> o \cup {Obj(s.verb, s.name, s.on)}]

\* db.Exec(stmt) of one schema statement on a database holding the objects o.
\* Tables, indexes and sequences share the relation names; id SERIAL brings
\* the sequence kine_id_seq with the table.
ExecDDL(o, s) ==
    LET relation == \E x \in o : x.kind # "function" /\ x.name = s.name
    IN IF s.verb = "CREATE TABLE"
       THEN IF relation
            THEN [err |-> IF s.guard = "IF NOT EXISTS" THEN NoErr ELSE PqErr("42P07"), objs |-> o]
            ELSE [err |-> NoErr,
                  objs |-> o \cup {Obj("table", s.name, ""),
                                   Obj("sequence", "kine_id_seq", s.name)}]
       ELSE IF s.verb \in {"CREATE INDEX", "CREATE UNIQUE INDEX"}
       THEN IF relation
            THEN [err |-> IF s.guard = "IF NOT EXISTS" THEN NoErr ELSE PqErr("42P07"), objs |-> o]
            ELSE IF ~\E x \in o : x.kind = "table" /\ x.name = s.on
            THEN [err |-> PqErr("42P01"), objs |-> o]
            ELSE [err |-> NoErr,
                  objs |-> o \cup {Obj(IF s.verb = "CREATE INDEX" THEN "index" ELSE "unique index",
                                       s.name, s.on)}]
       ELSE IF \E x \in o : x.kind = "function" /\ x.name = s.name
            THEN [err |-> IF s.guard = "OR REPLACE" THEN NoErr ELSE PqErr("42723"), objs |-> o]
            ELSE [err |-> NoErr, objs |-> o \cup {Obj("function", s.name, "")}]

\* setup run to its end on the objects o, no other session in between
RECURSIVE setup(_, _, _)
setup(o, stmts, i) ==
    IF i > Len(stmts) THEN [err |-> NoErr, objs |-> o]
    ELSE LET r == ExecDDL(o, stmts[i])
         IN IF r.err # NoErr THEN r ELSE setup(r.objs, stmts, i + 1)

\* a process that has not been started
NotStarted ==
    [pc |-> "idle", run |-> 0, path |-> <<>>, dbName |-> <<>>, ping |-> NoErr,
     issued |-> <<>>, ret |-> NoErr, i |-> 0, err |-> NoErr]

\* New up to createDBIfNotExist's sql.Open: the DSN is parsed, the database
\* name taken from its path; nothing is sent yet
StartNew(p, path) ==
    /\ pr[p].pc \in {"idle", "ready", "failed"}
    /\ pr[p].run < MaxRuns
    /\ pr' = [pr EXCEPT ![p] =
                [NotStarted EXCEPT !.pc = "ping", !.run = pr[p].run + 1,
                                   !.path = path, !.dbName = SplitN2(path)]]
    /\ UNCHANGED <<gen, dbs, objs, logVars, qVars>>

\* createDBIfNotExist: db.Ping() and the branches on its error
DoPing(p, fault) ==
    /\ pr[p].pc = "ping"
    /\ LET err == Ping(dbs, pr[p].path, fault)
           a == AfterPing(err)
       IN pr' = [pr EXCEPT ![p].ping = err,
                           ![p].ret = a.err,
                           ![p].err = a.err,
                           ![p].i = IF a.do = "return" /\ a.err = NoErr THEN 1 ELSE 0,
                           ![p].pc = IF a.do = "create" THEN "create"
                                     ELSE IF a.err = NoErr THEN "setup" ELSE "failed"]
    /\ UNCHANGED <<gen, dbs, objs, logVars, qVars>>

\* createDBIfNotExist: db.Exec(stmt) on the administrative database and the
\* return that follows it
DoCreate(p) ==
    /\ pr[p].pc = "create"
    /\ LET stmt == CreateStmt(gen, pr[p].dbName)
           r == ExecCreate(dbs, stmt)
       IN /\ dbs' = r.dbs
          /\ pr' = [pr EXCEPT ![p].issued = Append(@, [on |-> SplitN2(AdminPath), stmt |-> stmt]),
                              ![p].ret = r.err,
                              ![p].err = r.err,
                              ![p].i = IF r.err = NoErr THEN 1 ELSE 0,
                              ![p].pc = IF r.err = NoErr THEN "setup" ELSE "failed"]
    /\ UNCHANGED <<gen, objs, logVars, qVars>>

\* setup: one turn of the loop over schema, on the database of the DSN
DoSetup(p) ==
    /\ pr[p].pc = "setup"
    /\ LET r == ExecDDL(objs[pr[p].dbName], schema(gen)[pr[p].i])
       IN /\ objs' = [objs EXCEPT ![pr[p].dbName] = r.objs]
          /\ pr' = [pr EXCEPT ![p].err = r.err,
                              ![p].i = IF r.err = NoErr THEN @ + 1 ELSE @,
                              ![p].pc = IF r.err # NoErr THEN "failed"
                                        ELSE IF pr[p].i = Len(schema(gen)) THEN "ready"
                                        ELSE "setup"]
    /\ UNCHANGED <<gen, dbs, logVars, qVars>>

\* a server with the administrative database and any of the others, all empty
InitBoot ==
    /\ gen \in Dialects
    /\ \E S \in SUBSET DbNames : dbs = {SplitN2(AdminPath)} \cup S
    /\ objs = [n \in DbNames |-> {}]
    /\ pr = [p \in Procs |-> NotStarted]

\* no server and no starting process are followed
NoBoot ==
    /\ gen = ""
    /\ dbs = {}
    /\ objs = <<>>
    /\ pr = <<>>

\* ------------------------------------------------------ placeholder rendering

\* the characters of a template: the placeholder, the prefix q writes, a digit
\* and any other character
Chars == {"?", "$", "1", "a"}
Templates == UNION {[1..n -> Chars] : n \in 0..MaxLen}

\* strconv.Itoa(n), n >= 0
RECURSIVE Itoa(_)
Itoa(n) ==
    LET digit == <<"0", "1", "2", "3", "4", "5", "6", "7", "8", "9">>[(n % 10) + 1]
    IN IF n < 10 THEN <<digit>> ELSE Itoa(n \div 10) \o <<digit>>

\* regex.ReplaceAllStringFunc(sql, func) for the regexp \? and the closure
\* { n++; return pref + strconv.Itoa(n) }, n being the closure's counter when
\* the scan reaches s
RECURSIVE ReplaceAllStringFunc(_, _)
ReplaceAllStringFunc(s, n) ==
    IF s = <<>> THEN <<>>
    ELSE IF Head(s) = "?"
    THEN <<"$">> \o Itoa(n + 1) \o ReplaceAllStringFunc(Tail(s), n + 1)
    ELSE <<Head(s)>> \o ReplaceAllStringFunc(Tail(s), n)

\* (mutant) the counter is read before it is incremented: $0, $1, ...
q_ZeroBased(s) == ReplaceAllStringFunc(s, -1)

\* func q: n := 0, then the replacement
q(s) == ReplaceAllStringFunc(s, 0)

NotRendered == <<"not rendered">>

InitRender ==
    /\ tmpl \in Templates
    /\ sql = [first |-> NotRendered, second |-> NotRendered, again |-> NotRendered]

\* no call of q is followed
NoRender ==
    /\ tmpl = <<>>
    /\ sql = <<>>

\* q(template)
Render ==
    /\ sql.first = NotRendered
    /\ sql' = [sql EXCEPT !.first = q(tmpl)]
    /\ UNCHANGED <<tmpl, logVars, bootVars>>

\* q(template) once more
RenderAgain ==
    /\ sql.first # NotRendered /\ sql.second = NotRendered
    /\ sql' = [sql EXCEPT !.second = q(tmpl)]
    /\ UNCHANGED <<tmpl, logVars, bootVars>>

\* q on the text q returned
RenderRendered ==
    /\ sql.first # NotRendered /\ sql.again = NotRendered
    /\ sql' = [sql EXCEPT !.again = q(sql.first)]
    /\ UNCHANGED <<tmpl, logVars, bootVars>>

\* ------------------------------------------------------------ the log table

\* (mutant) the id column is a plain counter that wraps: ids are reused
nextval_Wraps(s) == IF s >= 2 THEN 1 ELSE s + 1

\* id SERIAL PRIMARY KEY: the next value of the sequence behind kine.id
nextval(s) == s + 1

\* (mutant) the index on (name, prev_revision) is not unique
UniqueViolation_NotUnique(t, r) == FALSE

\* CREATE UNIQUE INDEX kine_name_prev_revision_uindex ON kine (name, prev_revision):
\* would adding row r to t violate it
UniqueViolation(t, r) ==
    \E x \in t : x.name = r.name /\ x.prev_revision = r.prev_revision

\* dialect.TranslateErr: the unique-violation code becomes ErrKeyExists,
\* every other error is returned as it came
TranslateErr(code) == IF code = "23505" THEN "KeyExists" ELSE code

\* the key's latest row, deleted or not (the read half of a mutation)
LatestOf(t, k) == {r \in t : r.name = k /\ \A x \in t : x.name = k => x.id <= r.id}

NoInsert == [id |-> NULL, value |-> 0, deleted |-> 0]

Init ==
    /\ kine = {}
    /\ seq = 0
    /\ wr = [w \in Writers |->
                [pc |-> "idle", name |-> NullKey, prev_revision |-> 0,
                 live |-> FALSE, id |-> NULL, err |-> ""]]
    /\ lastIns = [k \in Keys |-> NoInsert]
    /\ NoBoot
    /\ NoRender

\* A writer reads the latest row of key k; it will insert with prev_revision
\* set to that row's id, or 0 when the key has no row.
Read(w, k) ==
    /\ wr[w].pc \in {"idle", "done"}
    /\ seq < MaxId
    /\ LET cur == LatestOf(kine, k) IN
       wr' = [wr EXCEPT ![w] =
                [pc |-> "read", name |-> k,
                 prev_revision |-> IF cur = {} THEN 0 ELSE (CHOOSE r \in cur : TRUE).id,
                 live |-> \E r \in cur : r.deleted = 0,
                 id |-> NULL, err |-> ""]]
    /\ UNCHANGED <<kine, seq, lastIns, bootVars, qVars>>

\* insert(name, created, deleted, prev_revision, value): one INSERT statement.
\* Writer w writes the payload w; a tombstone carries the empty payload (0).
\* id SERIAL takes the next sequence value before the unique index is checked,
\* so a rejected insert consumes an id as well.
Insert(w, deleted) ==
    /\ wr[w].pc = "read"
    /\ seq < MaxId
    /\ deleted = 1 => wr[w].live
    /\ LET row == [id |-> nextval(seq), name |-> wr[w].name,
                   created |-> IF wr[w].live THEN 0 ELSE 1,
                   deleted |-> deleted,
                   prev_revision |-> wr[w].prev_revision,
                   value |-> IF deleted = 1 THEN 0 ELSE w]
       IN /\ seq' = nextval(seq)
          /\ IF UniqueViolation(kine, row)
             THEN /\ kine' = kine
                  /\ lastIns' = lastIns
                  /\ wr' = [wr EXCEPT ![w].pc = "done", ![w].id = NULL,
                                      ![w].err = TranslateErr("23505")]
             ELSE /\ kine' = kine \cup {row}
                  /\ lastIns' = [lastIns EXCEPT ![row.name] =
                                    [id |-> row.id, value |-> row.value, deleted |-> deleted]]
                  /\ wr' = [wr EXCEPT ![w].pc = "done", ![w].id = row.id, ![w].err = ""]
    /\ UNCHANGED <<bootVars, qVars>>

\* ------------------------------------------------------------- compaction

\* (mutant) the first branch forgets kp.name != 'compact_rev_key'
CompactIds_NoSentinelGuard(t, R) ==
    {kp.prev_revision : kp \in {x \in t : x.prev_revision # 0 /\ x.id <= R}}
        \cup {kd.id : kd \in {x \in t : x.deleted # 0 /\ x.id <= R}}

\* (mutant) the first branch selects kp.id, the superseding row itself
CompactIds_DeletesSelf(t, R) ==
    {kp.id : kp \in {x \in t : /\ x.name # compact_rev_key
                                /\ x.prev_revision # 0
                                /\ x.id <= R}}
        \cup {kd.id : kd \in {x \in t : x.deleted # 0 /\ x.id <= R}}

\* (mutant) the first branch selects the id of every superseded row whose own
\* prev_revision is not 0
CompactIds_OwnPrevRevision(t, R) ==
    {kp.id : kp \in {x \in t : /\ x.name # compact_rev_key
                                /\ x.prev_revision # 0
                                /\ x.id <= R
                                /\ \E y \in t : y.name = x.name /\ y.id > x.id}}
        \cup {kd.id : kd \in {x \in t : x.deleted # 0 /\ x.id <= R}}

\* (mutant) both branches compare with < instead of <=
CompactIds_StrictlyBelow(t, R) ==
    {kp.prev_revision : kp \in {x \in t : /\ x.name # compact_rev_key
                                           /\ x.prev_revision # 0
                                           /\ x.id < R}}
        \cup {kd.id : kd \in {x \in t : x.deleted # 0 /\ x.id < R}}

\* dialect.CompactSQL with $1 = $2 = R: the ids the USING subquery selects
CompactIds(t, R) ==
    {kp.prev_revision : kp \in {x \in t : /\ x.name # compact_rev_key
                                           /\ x.prev_revision # 0
                                           /\ x.id <= R}}
        \cup {kd.id : kd \in {x \in t : x.deleted # 0 /\ x.id <= R}}

\* DELETE FROM kine AS kv USING (...) AS ks WHERE kv.id = ks.id
CompactSQL(t, R) == {kv \in t : kv.id \notin CompactIds(t, R)}

\* the boundary is persisted in the sentinel row's prev_revision: the row is
\* inserted when the table has none, updated otherwise
SetCompactRevision(t, R, newId) ==
    IF \E x \in t : x.name = compact_rev_key
    THEN {IF x.name = compact_rev_key THEN [x EXCEPT !.prev_revision = R] ELSE x : x \in t}
    ELSE t \cup {[id |-> newId, name |-> compact_rev_key, created |-> 0, deleted |-> 0,
                  prev_revision |-> R, value |-> 0]}

\* compact(R) on table t: one transaction, the delete pass and then the boundary
compact(t, R, newId) == SetCompactRevision(CompactSQL(t, R), R, newId)

\* a compaction pass; the boundary is a revision the sequence has handed out
\* (or 0) and it only advances
Compact(R) ==
    /\ R >= compactRevSQL(kine) /\ R <= seq
    /\ (\E x \in kine : x.name = compact_rev_key) \/ seq < MaxId
    /\ kine' = compact(kine, R, nextval(seq))
    /\ seq' = IF \E x \in kine : x.name = compact_rev_key THEN seq ELSE nextval(seq)
    /\ UNCHANGED <<wr, lastIns, bootVars, qVars>>

Next ==
    \/ \E w \in Writers, k \in Keys : Read(w, k)
    \/ \E w \in Writers, d \in {0, 1} : Insert(w, d)
    \/ \E R \in 0..MaxId : Compact(R)

Spec == Init /\ [][Next]_vars

\* the writers alone, no compaction
NextIns ==
    \/ \E w \in Writers, k \in Keys : Read(w, k)
    \/ \E w \in Writers, d \in {0, 1} : Insert(w, d)

SpecIns == Init /\ [][NextIns]_vars

\* one writer and compaction: the logs a listing is paged over
NextOne ==
    \/ \E k \in Keys : Read(1, k)
    \/ \E d \in {0, 1} : Insert(1, d)
    \/ \E R \in 0..MaxId : Compact(R)

SpecOne == Init /\ [][NextOne]_vars

\* the empty table, no writer followed
NoLog ==
    /\ kine = {}
    /\ seq = 0
    /\ wr = <<>>
    /\ lastIns = <<>>

\* processes starting against one server: New up to the end of setup
NextBoot ==
    \/ \E p \in Procs, path \in DsnPaths : StartNew(p, path)
    \/ \E p \in Procs, fault \in PingFaults : DoPing(p, fault)
    \/ \E p \in Procs : DoCreate(p)
    \/ \E p \in Procs : DoSetup(p)

BootInit == NoLog /\ InitBoot /\ NoRender

SpecBoot == BootInit /\ [][NextBoot]_vars

\* q applied to every template of the bound
NextRender == Render \/ RenderAgain \/ RenderRendered

RenderInit == NoLog /\ NoBoot /\ InitRender

SpecRender == RenderInit /\ [][NextRender]_vars

\* ------------------------------------------------------------------ claims

\* the finished insert calls that raced on (name n, prev_revision p)
Racers(n, p) ==
    {w \in Writers : wr[w].pc = "done" /\ wr[w].name = n /\ wr[w].prev_revision = p}

\* the rows holding (name n, prev_revision p)
RowsAt(n, p) == {r \in kine : r.name = n /\ r.prev_revision = p}

\* the rows of key n in the answer of current(pattern, include_deleted)
CurrentOf(d, pattern, n, include_deleted) ==
    {r \in Rows(current(d, kine, pattern, include_deleted, NULL)) : r.name = n}

C1_State ==
    \A n \in Keys, p \in 0..MaxId :
        Racers(n, p) # {} =>
            /\ Cardinality(RowsAt(n, p)) = 1
            /\ Cardinality({w \in Racers(n, p) : wr[w].err = ""}) <= 1
            /\ \A w \in Racers(n, p) :
                \/ /\ wr[w].err = "" /\ wr[w].id # NULL
                   /\ RowsAt(n, p) = {r \in kine : r.id = wr[w].id}
                   /\ \A r \in RowsAt(n, p) : r.value \in {0, w}
                \/ /\ wr[w].err = "KeyExists" /\ wr[w].id = NULL
                   /\ \A r \in RowsAt(n, p) : r.value # w
            /\ \A r \in RowsAt(n, p) :
                (/\ \A x \in kine : x.name = n => x.id <= r.id
                 /\ \A w \in Writers :
                        ~(wr[w].pc = "read" /\ wr[w].name = n /\ wr[w].prev_revision = p))
                => \A d \in Dialects, pat \in {<<>>, n} :
                       /\ CurrentOf(d, pat, n, TRUE) = {r}
                       /\ r.deleted = 0 => CurrentOf(d, pat, n, FALSE) = {r}

C1_Step ==
    \A w \in Writers :
        (wr[w].pc = "read" /\ wr'[w].pc = "done") =>
            IF RowsAt(wr[w].name, wr[w].prev_revision) = {}
            THEN /\ wr'[w].err = "" /\ wr'[w].id \notin {r.id : r \in kine}
                 /\ \E r \in kine' : /\ kine' = kine \cup {r} /\ r \notin kine
                                     /\ r.id = wr'[w].id /\ r.name = wr[w].name
                                     /\ r.prev_revision = wr[w].prev_revision
            ELSE wr'[w].err = "KeyExists" /\ wr'[w].id = NULL /\ kine' = kine

Boundaries == 0..MaxId

\* r is the current revision of a live key in table t
CurrentLive(t, r) ==
    /\ r \in t /\ r.deleted = 0
    /\ \A x \in t : x.name = r.name => x.id <= r.id

\* C2: for every boundary R, also one at or above the largest id, compact(R)
\* deletes no row that is the current (not superseded, not deleted) revision
\* of a live key.
C2_CompactKeepsCurrent ==
    \A R \in Boundaries : \A r \in kine :
        CurrentLive(kine, r) =>
            /\ r \in CompactSQL(kine, R)
            /\ \E x \in compact(kine, R, nextval(seq)) : x.id = r.id /\ x.name = r.name

\* a compaction at R has deleted a tombstone while the live current row of
\* another key, at or below R, is still there
C2_Witness ==
    \E k \in Keys, r \in kine :
        /\ lastIns[k].deleted = 1
        /\ \A x \in kine : x.id # lastIns[k].id
        /\ r.name \in Keys /\ r.name # k /\ CurrentLive(kine, r)
        /\ r.id < lastIns[k].id /\ r.prev_revision # 0
        /\ compactRevSQL(kine) >= lastIns[k].id

\* the latest revision of r's key among the rows of t with id <= R
LatestUpTo(t, r, R) ==
    /\ r \in t /\ r.id <= R
    /\ \A x \in t : (x.name = r.name /\ x.id <= R) => x.id <= r.id

\* C3: current(pattern, include_deleted) returns exactly one row for every
\* matching key, its latest revision; with include_deleted = FALSE a key whose
\* latest revision is a tombstone is not returned at all, with TRUE it is
\* returned with its tombstone.
C3_CurrentLatestPerKey ==
    \A d \in Dialects, pat \in Patterns, incl \in BOOLEAN :
        Rows(current(d, kine, pat, incl, NULL))
            = {r \in kine : /\ Like(r.name, pat)
                            /\ LatestUpTo(kine, r, MaxInt32)
                            /\ (incl \/ r.deleted = 0)}

\* C4: as_of(pattern, max_revision = R, include_deleted) returns at most one
\* row per key, and that row is the key's revision with the greatest id not
\* exceeding R.
C4_AsOfGreatestBelow ==
    \A d \in Dialects, pat \in Patterns, R \in Boundaries, incl \in BOOLEAN :
        LET rows == Rows(as_of(d, kine, pat, NullKey, R, incl, NULL))
        IN /\ \A r \in rows : Like(r.name, pat) /\ LatestUpTo(kine, r, R)
           /\ \A r1, r2 \in rows : r1.name = r2.name => r1 = r2

\* key, id and value of the rows of a response
KeyIdValue(resp) == {<<r.name, r.id, r.value>> : r \in Rows(resp)}

\* C5: for every R' >= R, as_of(pattern, max_revision = R', include_deleted =
\* FALSE) returns the same rows right after compact(R) as right before it.
C5_CompactPreservesAsOf ==
    [][\A R \in Boundaries :
          Compact(R) =>
              \A d \in Dialects, pat \in Keys, R2 \in R..MaxId :
                  KeyIdValue(as_of(d, kine', pat, NullKey, R2, FALSE, NULL))
                      = KeyIdValue(as_of(d, kine, pat, NullKey, R2, FALSE, NULL))]_vars

\* the compact_revision watermark a caller reads off a response: a column of
\* the returned rows, so there is none when no row is returned
CompactRevisionOf(resp) == IF Len(resp) = 0 THEN NULL ELSE resp[1].compact_rev_id

\* C6: once the boundary is C, every as_of with max_revision < C returns the
\* watermark C, also when no row matches.
C6_WatermarkAlwaysReturned ==
    \A d \in Dialects, pat \in Patterns, R \in Boundaries, incl \in BOOLEAN :
        (compactRevSQL(kine) # NULL /\ R < compactRevSQL(kine)) =>
            CompactRevisionOf(as_of(d, kine, pat, NullKey, R, incl, NULL))
                = compactRevSQL(kine)

\* the keys of a response, in the order returned
NamesOf(resp) == [i \in 1..Len(resp) |-> resp[i].row.name]

\* C7: as_of with min_key_exclusive = k returns only keys greater than k, and
\* with limit = 1 the smallest key greater than k among the keys the same
\* query returns without a lower bound, whatever the insertion order.
C7_PageStartsAfterKey ==
    \A d \in Dialects, pat \in Patterns, k \in Keys, R \in Boundaries, incl \in BOOLEAN :
        LET all == {r.name : r \in Rows(as_of(d, kine, pat, NullKey, R, incl, NULL))}
            above == {n \in all : KeyLess(k, n)}
            page == as_of(d, kine, pat, k, R, incl, 1)
        IN /\ \A r \in Rows(as_of(d, kine, pat, k, R, incl, NULL)) : KeyLess(k, r.name)
           /\ IF above = {} THEN Len(page) = 0
              ELSE /\ Len(page) = 1
                   /\ page[1].row.name \in above
                   /\ \A n \in above : n = page[1].row.name \/ KeyLess(page[1].row.name, n)

\* following prev_revision backward from row r of table t: every step goes to
\* a row of the same key with a smaller id, and the walk ends at a created row
\* whose prev_revision is 0 (n bounds the number of steps)
RECURSIVE ChainOK(_, _, _)
ChainOK(t, r, n) ==
    IF r.prev_revision = 0 THEN r.created = 1
    ELSE /\ n > 0
         /\ \E x \in t : /\ x.id = r.prev_revision /\ x.name = r.name /\ x.id < r.id
                         /\ ChainOK(t, x, n - 1)

\* C8: after inserts on a key that start from prev_revision = 0 with created
\* set and then always name the key's latest row, following prev_revision
\* backward visits strictly decreasing ids, no row twice, and ends at the
\* created row whose prev_revision is 0.
C8_ChainWellFormed ==
    \A r \in kine :
        /\ Cardinality({x \in kine : x.id = r.id}) = 1
        /\ ChainOK(kine, r, MaxId)
        /\ \A x \in kine : (x.name = r.name /\ x.id < r.id) =>
              \E y \in kine : y.name = r.name /\ y.prev_revision = x.id

\* a key with a created row, a tombstone on it and a re-creation on the tombstone
C8_Witness ==
    \E r1, r2, r3 \in kine :
        /\ r1.name = r2.name /\ r2.name = r3.name
        /\ r1.prev_revision = 0 /\ r1.created = 1
        /\ r2.prev_revision = r1.id /\ r2.deleted = 1
        /\ r3.prev_revision = r2.id /\ r3.created = 1
        /\ \E w \in Writers : wr[w].pc = "done" /\ wr[w].err = "KeyExists"

\* C9: compact(R) run again on the log a compact(R) left, by the same or by
\* another process, deletes no further row and changes nothing.
C9_CompactIdempotent ==
    \A R \in Boundaries :
        LET once == compact(kine, R, nextval(seq))
        IN /\ CompactSQL(CompactSQL(kine, R), R) = CompactSQL(kine, R)
           /\ CompactSQL(once, R) = once
           /\ compact(once, R, nextval(nextval(seq))) = once

\* the log as a compaction at the persisted boundary left it: the pass deleted
\* a superseded row and a tombstone, and rows at or below the boundary remain
C9_Witness ==
    \E k \in Keys, r \in kine :
        /\ compactRevSQL(kine) # NULL
        /\ lastIns[k].deleted = 1 /\ lastIns[k].id <= compactRevSQL(kine)
        /\ \A x \in kine : x.name # k
        /\ r.name \in Keys /\ r.id <= compactRevSQL(kine) /\ r.prev_revision # 0
        /\ \A x \in kine : x.id # r.prev_revision
        /\ compact(kine, compactRevSQL(kine), nextval(seq)) = kine

\* C10: after insert(name, v, deleted = FALSE) succeeded with id i, and until
\* the next successful insert for that name, every current query whose pattern
\* matches name returns exactly one row for it: id i, value v, not deleted;
\* compaction at any boundary does not change that.
C10_CurrentReturnsLastInsert ==
    \A k \in Keys :
        (lastIns[k].id # NULL /\ lastIns[k].deleted = 0) =>
            \A d \in Dialects, pat \in {<<>>, k}, incl \in BOOLEAN :
                /\ Cardinality(CurrentOf(d, pat, k, incl)) = 1
                /\ \A r \in CurrentOf(d, pat, k, incl) :
                      /\ r.id = lastIns[k].id
                      /\ r.value = lastIns[k].value
                      /\ r.deleted = 0

\* the last insert of a key is live, it superseded a row written by the other
\* writer, and a compaction at or above its id has removed that row
C10_Witness ==
    \E k \in Keys, r \in kine :
        /\ r.id = lastIns[k].id /\ r.deleted = 0 /\ r.prev_revision # 0
        /\ \A x \in kine : x.id # r.prev_revision
        /\ compactRevSQL(kine) >= r.id
        /\ \E x \in kine : x.name \in Keys /\ x.name # k /\ x.value # r.value

\* C11: for every log state, pattern and include_deleted, count returns a
\* match_count equal to the number of rows current returns without a limit,
\* and a current_revision equal to the maximum id in the log.
C11_CountMatchesCurrent ==
    \A d \in Dialects, pat \in Patterns, incl \in BOOLEAN :
        LET c == count(d, kine, pat, incl)
        IN /\ c.count = Len(current(d, kine, pat, incl, NULL))
           /\ c.count = Cardinality(Rows(current(d, kine, pat, incl, NULL)))
           /\ IF kine = {} THEN c.current_id = NULL
              ELSE /\ \E r \in kine : r.id = c.current_id
                   /\ \A r \in kine : r.id <= c.current_id

\* a log with more rows than names: a key with two revisions left, a key whose
\* latest revision is a tombstone, and the counts with and without deleted keys
C11_Witness ==
    /\ Cardinality(kine) >= 4
    /\ \E k \in Keys : lastIns[k].deleted = 1 /\ \E r \in kine : r.id = lastIns[k].id
    /\ count("listSQL", kine, <<>>, TRUE).count = 3
    /\ count("listSQL", kine, <<>>, FALSE).count = 2
    /\ count("list_from_kine", kine, <<>>, TRUE).count = 3

\* id, name, deleted flag and prev_revision of the rows of a table
Shape(t) == {<<r.id, r.name, r.deleted, r.prev_revision>> : r \in t}

\* the log of the scenario: a@1 created, b@2 created, a@3 tombstone on a@1
ScenarioLog == {<<1, KeyA, 0, 0>>, <<2, KeyB, 0, 0>>, <<3, KeyA, 1, 1>>}

\* some non-sentinel revision of t with id <= R names x as its prev_revision
NamedBelow(t, x, R) ==
    \E kp \in t : kp.name # compact_rev_key /\ kp.id <= R /\ kp.prev_revision = x.id

\* C12: right after compact(R) the log holds no tombstone with id <= R and no
\* row named as prev_revision by a non-sentinel revision with id <= R, and the
\* other rows are untouched; on a@1, b@2, a@3 (tombstone, prev_revision 1)
\* compact(3) deletes revisions 1 and 3 and keeps revision 2.
C12_CompactRemovesBelow ==
    [][\A R \in Boundaries :
          Compact(R) =>
              /\ \A x \in kine' : ~(x.deleted # 0 /\ x.id <= R)
              /\ \A x \in kine' : ~NamedBelow(kine', x, R)
              /\ \A x \in kine :
                    (~(x.deleted # 0 /\ x.id <= R) /\ ~NamedBelow(kine, x, R)) =>
                        IF x.name = compact_rev_key
                        THEN [x EXCEPT !.prev_revision = R] \in kine'
                        ELSE x \in kine'
              /\ (Shape(kine) = ScenarioLog /\ R = 3) =>
                    /\ Shape({x \in kine' : x.name # compact_rev_key}) = {<<2, KeyB, 0, 0>>}
                    /\ \A x \in kine : x.id = 2 => x \in kine']_vars

\* the scenario after compact(3): the tombstone a@3 on a@1 was the last insert
\* of a, and the log holds b@2 and the sentinel with the boundary 3
C12_Witness ==
    /\ Shape({x \in kine : x.name # compact_rev_key}) = {<<2, KeyB, 0, 0>>}
    /\ Shape({x \in kine : x.name = compact_rev_key}) = {<<4, compact_rev_key, 0, 3>>}
    /\ lastIns[KeyA] = [id |-> 3, value |-> 0, deleted |-> 1]
    /\ lastIns[KeyB].id = 2
    /\ \E w \in Writers : wr[w].name = KeyA /\ wr[w].id = 3 /\ wr[w].prev_revision = 1

\* createDBIfNotExist has returned in the current run of process p
Returned(p) == pr[p].pc \in {"setup", "ready", "failed"}

\* the one statement the bootstrap may issue for the database of a DSN path:
\* CREATE DATABASE, the path without its leading "/", and the closing ";"
CreateDatabaseOf(path) ==
    <<[on |-> <<"postgres">>, stmt |-> <<"CREATE DATABASE ">> \o Tail(path) \o <<";">>]>>

\* C13: when several processes run createDBIfNotExist against a server on
\* which the database is absent, every one of them returns success: a process
\* whose CREATE DATABASE fails with the duplicate-database error, because
\* another process created the database first, treats that error as success.
C13_ConcurrentCreateSucceeds ==
    \A p \in Procs :
        (/\ Returned(p)
         /\ pr[p].ping = PqErr("3D000")
         /\ pr[p].issued = CreateDatabaseOf(pr[p].path))
        => pr[p].ret = NoErr

\* C14: createDBIfNotExist issues a statement only when the connection attempt
\* fails with the database-absent code, and then exactly one, on the
\* administrative database: CREATE DATABASE naming the database of the DSN
\* path; when the connection succeeds it returns success and issues nothing;
\* every other connection failure is returned unchanged, nothing issued.
C14_CreateOnlyWhenAbsent ==
    \A p \in Procs :
        Returned(p) =>
            IF pr[p].ping = NoErr
            THEN pr[p].issued = <<>> /\ pr[p].ret = NoErr
            ELSE IF pr[p].ping = PqErr("3D000")
            THEN pr[p].issued = CreateDatabaseOf(pr[p].path)
            ELSE pr[p].issued = <<>> /\ pr[p].ret = pr[p].ping

\* the tables, indexes and functions one run of setup leaves on an empty database
SingleRun(g) == setup({}, schema(g), 1).objs

\* C15: setup run any number of times, on an empty database or on one where
\* an earlier run completed, returns no error and leaves the same tables,
\* indexes and functions as a single run.
C15_SetupIdempotent ==
    /\ \A p \in Procs : pr[p].pc = "failed" => pr[p].ret # NoErr
    /\ \A p \in Procs : pr[p].pc = "ready" => objs[pr[p].dbName] = SingleRun(gen)
    /\ \A n \in DbNames :
          (\E p \in Procs : pr[p].pc = "ready" /\ pr[p].dbName = n) =>
              LET again == setup(objs[n], schema(gen), 1)
              IN again.err = NoErr /\ again.objs = SingleRun(gen)

\* a process finished setup in its second start, on a database where another
\* process finished setup as well
C15_Witness ==
    \E p1, p2 \in Procs :
        /\ p1 # p2
        /\ pr[p1].pc = "ready" /\ pr[p1].run = 2
        /\ pr[p2].pc = "ready" /\ pr[p2].dbName = pr[p1].dbName
        /\ Cardinality(objs[pr[p1].dbName]) = Len(schema(gen)) + 1

RECURSIVE Flatten(_)
Flatten(ss) == IF ss = <<>> THEN <<>> ELSE Head(ss) \o Flatten(Tail(ss))

\* template s with its k-th "?" from the left replaced by "$" and the decimal
\* digits of k, every other character kept
Positional(s) ==
    Flatten([i \in 1..Len(s) |->
                IF s[i] = "?"
                THEN <<"$">> \o Itoa(Cardinality({j \in 1..i : s[j] = "?"}))
                ELSE <<s[i]>>])

\* C16: q replaces the k-th "?" of a template, counted from the left starting
\* at 1, by "$k" and leaves every other character unchanged; the numbering
\* restarts on every call, so rendering the same template twice gives the same
\* text, and rendering a rendered text changes nothing.
C16_RenderPositional ==
    /\ sql.first # NotRendered =>
          /\ sql.first = Positional(tmpl)
          /\ \A i \in 1..Len(sql.first) : sql.first[i] # "?"
    /\ sql.second # NotRendered => sql.second = Positional(tmpl)
    /\ sql.again # NotRendered => sql.again = sql.first

\* a template with two placeholders and a "$" of its own has been rendered
\* twice, and its rendered text once more
C16_Witness ==
    /\ Cardinality({i \in 1..Len(tmpl) : tmpl[i] = "?"}) >= 2
    /\ \E i \in 1..Len(tmpl) : tmpl[i] = "$"
    /\ sql.first # NotRendered /\ sql.second # NotRendered /\ sql.again # NotRendered
    /\ Len(sql.first) = Len(tmpl) + 2

\* the row with the id of x is gone from table t
Gone(t, x) == \A y \in t : y.id # x.id

\* C17 as stated: compact(R) deletes a row if and only if (a) the row is not
\* the sentinel, its own prev_revision is nonzero, a newer revision of its key
\* exists and its id <= R, or (b) it is a tombstone with id <= R.
C17_DeletesOwnPrevRevision ==
    [][\A R \in Boundaries :
          Compact(R) =>
              \A x \in kine :
                  Gone(kine', x) <=>
                      \/ /\ x.name # compact_rev_key
                         /\ x.prev_revision # 0
                         /\ \E y \in kine : y.name = x.name /\ y.id > x.id
                         /\ x.id <= R
                      \/ x.deleted # 0 /\ x.id <= R]_vars

\* C17 (amended): compact(R) deletes a row if and only if (a) a row that is
\* not the sentinel, has id <= R and a nonzero prev_revision names the row's
\* id as its prev_revision, or (b) the row is a tombstone with id <= R; every
\* other row is left unchanged, the sentinel's prev_revision being set to R.
C17_DeletesNamedOrTombstone ==
    [][\A R \in Boundaries :
          Compact(R) =>
              \A x \in kine :
                  /\ Gone(kine', x) <=>
                        \/ \E kp \in kine : /\ kp.name # compact_rev_key
                                            /\ kp.id <= R
                                            /\ kp.prev_revision # 0
                                            /\ kp.prev_revision = x.id
                        \/ x.deleted # 0 /\ x.id <= R
                  /\ ~Gone(kine', x) =>
                        IF x.name = compact_rev_key
                        THEN [x EXCEPT !.prev_revision = R] \in kine'
                        ELSE x \in kine']_vars

\* compact(2) ran on a key with the revisions 1, 2 and 3: the created row 1
\* (prev_revision 0) is gone, and row 2, superseded by row 3 above the boundary,
\* is still there
C17_Witness ==
    \E k \in Keys :
        /\ Shape({x \in kine : x.name = k}) = {<<2, k, 0, 1>>, <<3, k, 0, 2>>}
        /\ Shape({x \in kine : x.name = compact_rev_key}) = {<<4, compact_rev_key, 0, 2>>}

\* the limits a paginating caller passes
PageLimits == 1..2

\* the pages a caller receives that lists with a limit and then calls as_of
\* again with the key of the last row as min_key_exclusive, until a page is
\* empty (fuel bounds the number of calls)
RECURSIVE Pages(_, _, _, _, _, _, _, _)
Pages(d, t, pat, R, incl, limit, last, fuel) ==
    LET page == as_of(d, t, pat, last, R, incl, limit)
    IN IF Len(page) = 0 \/ fuel = 0 THEN <<page>>
       ELSE <<page>> \o Pages(d, t, pat, R, incl, limit, page[Len(page)].row.name, fuel - 1)

\* C18: with pattern, max_revision and include_deleted fixed and no insert or
\* compact in between, a caller that lists with a limit and then repeatedly
\* calls as_of with the last key of the previous page as min_key_exclusive
\* receives every row of the unlimited as_of exactly once and finishes with an
\* empty page.
C18_PaginationComplete ==
    \A d \in Dialects, pat \in Patterns, R \in Boundaries, incl \in BOOLEAN, limit \in PageLimits :
        LET all == as_of(d, kine, pat, NullKey, R, incl, NULL)
            ps == Pages(d, kine, pat, R, incl, limit, NullKey, MaxId + 1)
            got == Flatten(ps)
        IN /\ Len(ps[Len(ps)]) = 0
           /\ \A i \in 1..(Len(ps) - 1) : Len(ps[i]) \in 1..limit
           /\ Len(got) = Len(all)
           /\ Rows(got) = Rows(all)
           /\ \A i, j \in 1..Len(got) : got[i].row.name = got[j].row.name => i = j

\* three keys are listed, the latest revision of b is older than that of a, and
\* with limit 2 the caller gets a full page, a page of one row and an empty page
C18_Witness ==
    /\ Len(as_of("listSQL", kine, <<>>, NullKey, MaxId, TRUE, NULL)) = 3
    /\ \E ra, rb \in kine : /\ ra.name = KeyA /\ LatestUpTo(kine, ra, MaxId)
                            /\ rb.name = KeyB /\ LatestUpTo(kine, rb, MaxId)
                            /\ rb.id < ra.id /\ ra.prev_revision # 0
    /\ \A d \in Dialects : Len(Pages(d, kine, <<>>, MaxId, TRUE, 2, NullKey, MaxId + 1)) = 3

\* the current_revision watermark a caller reads off a list response (NULL
\* when no row is returned)
CurrentRevisionOf(resp) == IF Len(resp) = 0 THEN NULL ELSE resp[1].current_id

\* C19: the current_revision reported by current, as_of and count never
\* decreases over inserts and compactions: a later query never reports a
\* smaller one, also when compact removes the rows with the highest ids.
C19_CurrentRevisionMonotonic ==
    [][\A d \in Dialects, pat \in Patterns, incl \in BOOLEAN :
          /\ count(d, kine', pat, incl).current_id >= count(d, kine, pat, incl).current_id
          /\ LET before == CurrentRevisionOf(current(d, kine, pat, incl, NULL))
                 after == CurrentRevisionOf(current(d, kine', pat, incl, NULL))
             IN (before # NULL /\ after # NULL) => after >= before
          /\ LET before == CurrentRevisionOf(as_of(d, kine, pat, NullKey, MaxId, incl, NULL))
                 after == CurrentRevisionOf(as_of(d, kine', pat, NullKey, MaxId, incl, NULL))
             IN (before # NULL /\ after # NULL) => after >= before]_vars

\* the heads of key k: its rows that no row of k names as prev_revision
Heads(t, k) ==
    {r \in t : r.name = k /\ ~\E y \in t : y.name = k /\ y.prev_revision = r.id}

\* C20: in every state reachable by interleaving compact with writers that
\* read a key's latest row and then insert with prev_revision set to its id (0
\* when the key has no row), each key has at most one row that no other row of
\* the key names as prev_revision, also when compact deletes the key's rows
\* between a writer's read and its insert.
C20_NoForkedHistory ==
    \A k \in Keys : Cardinality(Heads(kine, k)) <= 1

====
